---- MODULE Spec2Model ----
(***************************************************************************)
(* Model of the workflow Scheduler of packages/engine/src/Scheduler.ts.    *)
(*                                                                         *)
(* The scheduler is single threaded JavaScript: a public call or a         *)
(* callback runs to completion, and a node's execute/resume may call the   *)
(* continuation `next` before it returns, which re-enters `run` while an   *)
(* outer `run` is still inside its dispatch loop.  The model keeps the     *)
(* open `run` loops on an explicit call stack; every other method is an    *)
(* operator from scheduler state to scheduler state, applied inside the    *)
(* step that calls it.                                                     *)
(*                                                                         *)
(* Fields of the scheduler state that the source does not have are history *)
(* (ghost) fields, marked as such where they are introduced.               *)
(***************************************************************************)
EXTENDS Integers, Sequences, FiniteSets, TLC

\* ------------------------------------------------------------------ bounds
\* Total number of calls of addAction (by the owner or chained by next), run
\* (by the owner) and resume.
MaxCalls == 4

\* ------------------------------------------------------------------ inputs
Exec == {"E1", "E2"}
Node == {"A", "B", "C"}

\* A finite acyclic flow graph: the outgoing edge lists a node may report.
OutgoingOf(n) ==
  CASE n = "A" -> {<<>>, <<"B">>, <<"B", "C">>, <<"C", "B">>}
    [] n = "B" -> {<<>>, <<"C">>}
    [] OTHER   -> {<<>>}

\* The entry nodes the owner seeds an execution with.
StartNodes == {"A"}

\* undefined nodeId / actionId of a run trigger built by the owner
NoNode == "none"
NoActionId == 0

\* constants imported from ./constant
EVENT_INSTANCE_COMPLETE == "instance:complete"
EVENT_INSTANCE_INTERRUPTED == "instance:interrupted"
EVENT_INSTANCE_ERROR == "instance:error"
COMPLETED == "completed"
INTERRUPTED == "interrupted"
ERROR == "error"
\* the promise returned by execute has not settled yet
PENDING == "pending"

\* ------------------------------------------------------------------- state
VARIABLES
  nodeQueueMap,      \* Map executionId -> array of NodeParam
  actionRunningMap,  \* Map executionId -> Map actionId -> ActionParam
  recorder,          \* the records handed to recorder.addActionRecord, in order
  events,            \* the events handed to emit, in order
  nextActionId,      \* createActionId: the next identifier to mint
  stack,             \* open run loops, innermost last
  tasks,             \* node invocations started by exec/resume
  dispatched,        \* ghost: the ActionParam of every exec call, in order
  nextRid,           \* ghost: identity of the next NodeParam object
  touched,           \* ghost: executionId -> addAction or resume was called since its
                     \* last complete event
  calls              \* number of addAction, owner run and resume calls so far

vars == <<nodeQueueMap, actionRunningMap, recorder, events, nextActionId, stack,
          tasks, dispatched, nextRid, touched, calls>>

\* ---------------------------------------------------------------- JS Map
EmptyMap == [k \in {} |-> 0]
MapSet(m, k, v) == [x \in DOMAIN m \cup {k} |-> IF x = k THEN v ELSE m[x]]
MapDelete(m, k) == [x \in DOMAIN m \ {k} |-> m[x]]
MapHas(m, k) == k \in DOMAIN m

\* The scheduler object (`this`) together with the history fields.
This ==
  [nodeQueueMap |-> nodeQueueMap, actionRunningMap |-> actionRunningMap,
   recorder |-> recorder, events |-> events, nextActionId |-> nextActionId,
   stack |-> stack, tasks |-> tasks, dispatched |-> dispatched,
   nextRid |-> nextRid, touched |-> touched, calls |-> calls]

Apply(s) ==
  /\ nodeQueueMap' = s.nodeQueueMap
  /\ actionRunningMap' = s.actionRunningMap
  /\ recorder' = s.recorder
  /\ events' = s.events
  /\ nextActionId' = s.nextActionId
  /\ stack' = s.stack
  /\ tasks' = s.tasks
  /\ dispatched' = s.dispatched
  /\ nextRid' = s.nextRid
  /\ touched' = s.touched
  /\ calls' = s.calls

\* constructor
Init ==
  /\ nodeQueueMap = EmptyMap
  /\ actionRunningMap = EmptyMap
  /\ recorder = <<>>
  /\ events = <<>>
  /\ nextActionId = 1
  /\ stack = <<>>
  /\ tasks = <<>>
  /\ dispatched = <<>>
  /\ nextRid = 1
  /\ touched = [e \in Exec |-> FALSE]
  /\ calls = 0

\* ------------------------------------------------------- Scheduler methods

\* createActionId(): a fresh identifier on every call.
createActionId(s) == s.nextActionId

\* pushActionToRunningMap keeping one running set for all executions: the
\* action is also put into every other running set that exists.
pushActionToRunningMapAll(s, actionParam) ==
  LET executionId == actionParam.executionId
      actionId == actionParam.actionId
      arm1 == IF ~MapHas(s.actionRunningMap, executionId)
              THEN MapSet(s.actionRunningMap, executionId, EmptyMap)
              ELSE s.actionRunningMap
      arm2 == IF actionId # NoActionId
              THEN [x \in DOMAIN arm1 |-> MapSet(arm1[x], actionId, actionParam)]
              ELSE arm1
  IN [s EXCEPT !.actionRunningMap = arm2]

pushActionToRunningMap(s, actionParam) ==
  LET executionId == actionParam.executionId
      actionId == actionParam.actionId
      arm1 == IF ~MapHas(s.actionRunningMap, executionId)
              THEN MapSet(s.actionRunningMap, executionId, EmptyMap)
              ELSE s.actionRunningMap
      arm2 == IF actionId # NoActionId
              THEN MapSet(arm1, executionId,
                          MapSet(arm1[executionId], actionId, actionParam))
              ELSE arm1
  IN [s EXCEPT !.actionRunningMap = arm2]

\* hasRunningTask without its look at the running set: always false.
hasRunningTaskNever(arm, executionId) ==
  [result |-> FALSE, actionRunningMap |-> arm]

\* hasRunningTask without its size check: an empty set counts as running.
hasRunningTaskPresent(arm, executionId) ==
  [result |-> MapHas(arm, executionId), actionRunningMap |-> arm]

\* The value returned, and the map after the call.
hasRunningTask(arm, executionId) ==
  IF ~MapHas(arm, executionId)
  THEN [result |-> FALSE, actionRunningMap |-> arm]
  ELSE IF DOMAIN arm[executionId] = {}
       THEN [result |-> FALSE, actionRunningMap |-> MapDelete(arm, executionId)]
       ELSE [result |-> TRUE, actionRunningMap |-> arm]

\* addAction putting the request at the head of the queue.
addActionFront(s, nodeParam) ==
  LET executionId == nodeParam.executionId
      nqm1 == IF ~MapHas(s.nodeQueueMap, executionId)
              THEN MapSet(s.nodeQueueMap, executionId, <<>>)
              ELSE s.nodeQueueMap
      entry == [executionId |-> executionId, nodeId |-> nodeParam.nodeId,
                rid |-> s.nextRid]
  IN [s EXCEPT !.nodeQueueMap = MapSet(nqm1, executionId,
                                       <<entry>> \o nqm1[executionId]),
               !.nextRid = @ + 1,
               !.calls = @ + 1,
               !.touched = [@ EXCEPT ![executionId] = TRUE]]

\* nodeParam is {executionId, nodeId}; rid is the identity of the object pushed.
addAction(s, nodeParam) ==
  LET executionId == nodeParam.executionId
      nqm1 == IF ~MapHas(s.nodeQueueMap, executionId)
              THEN MapSet(s.nodeQueueMap, executionId, <<>>)
              ELSE s.nodeQueueMap
      entry == [executionId |-> executionId, nodeId |-> nodeParam.nodeId,
                rid |-> s.nextRid]
  IN [s EXCEPT !.nodeQueueMap = MapSet(nqm1, executionId,
                                       Append(nqm1[executionId], entry)),
               !.nextRid = @ + 1,
               !.calls = @ + 1,
               !.touched = [@ EXCEPT ![executionId] = TRUE]]

\* run without the reset of the queue it has snapshotted.
ClearQueueKeep(nqm, executionId) == nqm

\* The reset of run emptying every pending queue.
ClearQueueAll(nqm, executionId) == [x \in DOMAIN nqm \cup {executionId} |-> <<>>]

\* this.nodeQueueMap.set(runParam.executionId, [])
ClearQueue(nqm, executionId) == MapSet(nqm, executionId, <<>>)

\* this.emit(EVENT_INSTANCE_COMPLETE, {...runParam, status: FlowStatus.COMPLETED})
EmitComplete(s, runParam) ==
  [s EXCEPT !.events = Append(@, [type |-> EVENT_INSTANCE_COMPLETE,
                                  executionId |-> runParam.executionId,
                                  nodeId |-> runParam.nodeId,
                                  actionId |-> runParam.actionId,
                                  status |-> COMPLETED]),
            !.touched = [@ EXCEPT ![runParam.executionId] = FALSE]]

\* run declaring completion only for an execution it has a queue for.
runSeededOnly(s, runParam, chained) ==
  LET executionId == runParam.executionId
      has == MapHas(s.nodeQueueMap, executionId)
      nodeQueue == IF has THEN s.nodeQueueMap[executionId] ELSE <<>>
      h == hasRunningTask(s.actionRunningMap, executionId)
  IN IF has /\ Len(nodeQueue) > 0
     THEN [s EXCEPT !.nodeQueueMap = ClearQueue(@, executionId),
                    !.stack = Append(@, [runParam |-> runParam,
                                         nodeQueue |-> nodeQueue,
                                         i |-> 1,
                                         chained |-> chained])]
     ELSE IF has /\ ~h.result
          THEN EmitComplete([s EXCEPT !.actionRunningMap = h.actionRunningMap],
                            runParam)
          ELSE [s EXCEPT !.actionRunningMap = h.actionRunningMap]

\* run dispatching its snapshot last request first.
runLifo(s, runParam, chained) ==
  LET executionId == runParam.executionId
      has == MapHas(s.nodeQueueMap, executionId)
      queue == IF has THEN s.nodeQueueMap[executionId] ELSE <<>>
      nodeQueue == [k \in 1..Len(queue) |-> queue[Len(queue) + 1 - k]]
      h == hasRunningTask(s.actionRunningMap, executionId)
  IN IF has /\ Len(nodeQueue) > 0
     THEN [s EXCEPT !.nodeQueueMap = ClearQueue(@, executionId),
                    !.stack = Append(@, [runParam |-> runParam,
                                         nodeQueue |-> nodeQueue,
                                         i |-> 1,
                                         chained |-> chained])]
     ELSE IF ~h.result
          THEN EmitComplete([s EXCEPT !.actionRunningMap = h.actionRunningMap],
                            runParam)
          ELSE [s EXCEPT !.actionRunningMap = h.actionRunningMap]

\* run up to its dispatch loop: the loop itself is stepped by RunDispatch and
\* RunReturn on the frame pushed here.  chained is a ghost: the requests the
\* calling next has just enqueued, <<>> for a call by the owner.
run(s, runParam, chained) ==
  LET executionId == runParam.executionId
      has == MapHas(s.nodeQueueMap, executionId)
      nodeQueue == IF has THEN s.nodeQueueMap[executionId] ELSE <<>>
      h == hasRunningTask(s.actionRunningMap, executionId)
  IN IF has /\ Len(nodeQueue) > 0
     THEN [s EXCEPT !.nodeQueueMap = ClearQueue(@, executionId),
                    !.stack = Append(@, [runParam |-> runParam,
                                         nodeQueue |-> nodeQueue,
                                         i |-> 1,
                                         chained |-> chained])]
     ELSE IF ~h.result
          THEN EmitComplete([s EXCEPT !.actionRunningMap = h.actionRunningMap],
                            runParam)
          ELSE [s EXCEPT !.actionRunningMap = h.actionRunningMap]

\* recorder.addActionRecord({timestamp: Date.now(), ...actionParam}); the
\* timestamp is left out.  via is a ghost: the caller.
saveActionResult(s, actionParam, via) ==
  [s EXCEPT !.recorder = Append(@, [executionId |-> actionParam.executionId,
                                    actionId |-> actionParam.actionId,
                                    nodeId |-> actionParam.nodeId,
                                    outgoing |-> actionParam.outgoing,
                                    status |-> actionParam.status,
                                    via |-> via])]

\* removeActionFromRunningMap clearing the running set instead of deleting
\* one key.
removeActionFromRunningMapAll(s, actionParam) ==
  LET executionId == actionParam.executionId
  IN IF actionParam.actionId = NoActionId THEN s
     ELSE IF ~MapHas(s.actionRunningMap, executionId) THEN s
     ELSE [s EXCEPT !.actionRunningMap = MapSet(@, executionId, EmptyMap)]

removeActionFromRunningMap(s, actionParam) ==
  LET executionId == actionParam.executionId
      actionId == actionParam.actionId
  IN IF actionId = NoActionId THEN s
     ELSE IF ~MapHas(s.actionRunningMap, executionId) THEN s
     ELSE [s EXCEPT !.actionRunningMap =
             MapSet(@, executionId, MapDelete(@[executionId], actionId))]

\* The forEach of next walking the edges last to first.
RECURSIVE addOutgoingReversed(_, _, _)
addOutgoingReversed(s, data, k) ==
  IF k > Len(data.outgoing) THEN s
  ELSE addOutgoingReversed(
         addAction(s, [executionId |-> data.executionId,
                       nodeId |-> data.outgoing[Len(data.outgoing) + 1 - k]]),
         data, k + 1)

\* data.outgoing.forEach(item => this.addAction({executionId, nodeId: item.target}))
RECURSIVE addOutgoing(_, _, _)
addOutgoing(s, data, k) ==
  IF k > Len(data.outgoing) THEN s
  ELSE addOutgoing(addAction(s, [executionId |-> data.executionId,
                                 nodeId |-> data.outgoing[k]]),
                   data, k + 1)

next(s, data) ==
  LET s1 == addOutgoing(s, data, 1)
      s2 == saveActionResult(s1, data, "next")
      s3 == removeActionFromRunningMap(s2, data)
      chained == [k \in 1..Len(data.outgoing) |->
                    [rid |-> s.nextRid + k - 1, target |-> data.outgoing[k]]]
  IN run(s3, [executionId |-> data.executionId, nodeId |-> data.nodeId,
              actionId |-> data.actionId], chained)

\* What a node hands to the continuation.
NextData(executionId, nodeId, actionId, outgoing) ==
  [executionId |-> executionId, nodeId |-> nodeId, actionId |-> actionId,
   outgoing |-> outgoing, status |-> COMPLETED]

\* The invocation of a node by exec (kind "execute") or resume (kind "resume").
\* called: the node has invoked the continuation; outgoing: the edges it handed
\* to the continuation, which it also returns from execute; status: the
\* settled value of execute, PENDING until it settles.
Task(kind, executionId, nodeId, actionId, called) ==
  [kind |-> kind, executionId |-> executionId, nodeId |-> nodeId,
   actionId |-> actionId, called |-> called, outgoing |-> <<>>,
   status |-> PENDING]

\* exec up to its await: model.execute({executionId, actionId, nodeId, next}).
\* sync: the node calls next before execute returns.
execStart(s, actionParam, sync, outgoing) ==
  LET t == [Task("execute", actionParam.executionId, actionParam.nodeId,
                 actionParam.actionId, sync)
              EXCEPT !.outgoing = IF sync THEN outgoing ELSE <<>>]
      s1 == [s EXCEPT !.tasks = Append(@, t),
                      !.dispatched = Append(@, actionParam)]
  IN IF sync
     THEN next(s1, NextData(actionParam.executionId, actionParam.nodeId,
                            actionParam.actionId, outgoing))
     ELSE s1

interrupted(s, execResult) ==
  [s EXCEPT !.events = Append(@, [type |-> EVENT_INSTANCE_INTERRUPTED] @@ execResult)]

\* error stopping the execution: it also drops the pending queue.
errorHalting(s, execResult) ==
  [s EXCEPT !.events = Append(@, [type |-> EVENT_INSTANCE_ERROR] @@ execResult),
            !.nodeQueueMap = MapDelete(@, execResult.executionId)]

error(s, execResult) ==
  [s EXCEPT !.events = Append(@, [type |-> EVENT_INSTANCE_ERROR] @@ execResult)]

\* exec after its await, with the settled execResult: the node returns the
\* outgoing it handed to the continuation ([] if it did not call it), and exec
\* stores that outgoing in its record.
execSettled(s, t, status) ==
  LET task == s.tasks[t]
      execResult == [executionId |-> task.executionId, actionId |-> task.actionId,
                     nodeId |-> task.nodeId, outgoing |-> task.outgoing,
                     status |-> status]
      s1 == IF status = INTERRUPTED THEN interrupted(s, execResult) ELSE s
      s2 == IF status = ERROR THEN error(s1, execResult) ELSE s1
      s3 == saveActionResult(s2, execResult, "exec")
      s4 == removeActionFromRunningMap(s3, task)
  IN [s4 EXCEPT !.tasks[t].status = status]

\* resume: the value model.resume settles to is not read.  A node that calls
\* the continuation before resume returns reaches the same states as one that
\* calls it right after, so the call is left to NodeNext.
resume(s, resumeParam) ==
  LET s1 == pushActionToRunningMap(s, [executionId |-> resumeParam.executionId,
                                       nodeId |-> resumeParam.nodeId,
                                       actionId |-> resumeParam.actionId])
      t == Task("resume", resumeParam.executionId, resumeParam.nodeId,
                resumeParam.actionId, FALSE)
  IN [s1 EXCEPT !.tasks = Append(@, t),
                !.touched = [@ EXCEPT ![resumeParam.executionId] = TRUE]]

\* ----------------------------------------------------------------- actions
Top == stack[Len(stack)]

\* The outgoing lists a node may report that fit the bound on requests.
Outgoings(s, n) == {o \in OutgoingOf(n) : s.calls + Len(o) <= MaxCalls}

\* The owner seeds an entry node.
AddAction(e, n) ==
  /\ stack = <<>>
  /\ calls < MaxCalls
  /\ Apply(addAction(This, [executionId |-> e, nodeId |-> n]))

\* The owner starts (or redundantly re-runs) an execution.
Run(e) ==
  /\ stack = <<>>
  /\ calls < MaxCalls
  /\ Apply(run([This EXCEPT !.calls = @ + 1],
               [executionId |-> e, nodeId |-> NoNode, actionId |-> NoActionId],
               <<>>))

\* One iteration of the dispatch loop of the innermost run.
RunDispatch(sync) ==
  /\ stack # <<>>
  /\ Top.i <= Len(Top.nodeQueue)
  /\ LET currentNode == Top.nodeQueue[Top.i]
         actionId == createActionId(This)
         actionParam == currentNode @@ [actionId |-> actionId]
         s1 == [This EXCEPT !.nextActionId = @ + 1,
                            !.stack[Len(stack)].i = @ + 1]
         s2 == pushActionToRunningMap(s1, actionParam)
     IN \E outgoing \in IF sync THEN Outgoings(This, currentNode.nodeId) ELSE {<<>>} :
          Apply(execStart(s2, actionParam, sync, outgoing))

\* The dispatch loop of the innermost run ends and run returns.
RunReturn ==
  /\ stack # <<>>
  /\ Top.i > Len(Top.nodeQueue)
  /\ stack' = SubSeq(stack, 1, Len(stack) - 1)
  /\ UNCHANGED <<nodeQueueMap, actionRunningMap, recorder, events, nextActionId,
                 tasks, dispatched, nextRid, touched, calls>>

\* A node that has not reported yet calls the continuation.
NodeNext(t) ==
  /\ stack = <<>>
  /\ t \in 1..Len(tasks)
  /\ ~tasks[t].called
  /\ tasks[t].status = PENDING
  /\ \E outgoing \in Outgoings(This, tasks[t].nodeId) :
       Apply(next([This EXCEPT !.tasks[t].called = TRUE,
                               !.tasks[t].outgoing = outgoing],
                  NextData(tasks[t].executionId, tasks[t].nodeId,
                           tasks[t].actionId, outgoing)))

\* The statuses execute may settle to: COMPLETED after the continuation was
\* called, INTERRUPTED or ERROR without calling it.
SettleStatuses(task) == IF task.called THEN {COMPLETED} ELSE {INTERRUPTED, ERROR}

\* The promise returned by execute settles and exec continues after its await.
ExecSettle(t) ==
  /\ stack = <<>>
  /\ t \in 1..Len(tasks)
  /\ tasks[t].kind = "execute"
  /\ tasks[t].status = PENDING
  /\ \E status \in SettleStatuses(tasks[t]) : Apply(execSettled(This, t, status))

\* An external caller resumes an action under an identifier minted earlier.
Resume(e, n, a) ==
  /\ stack = <<>>
  /\ calls < MaxCalls
  /\ \E t \in 1..Len(tasks) : tasks[t].actionId = a /\ tasks[t].nodeId = n
  /\ Apply(resume([This EXCEPT !.calls = @ + 1],
                  [executionId |-> e, nodeId |-> n, actionId |-> a]))

\* resume after its await: the value the node's resume settled to is dropped,
\* the function has no statement left.
resumeSettled(s, t, status) == [s EXCEPT !.tasks[t].status = status]

\* The promise returned by the node's resume operation settles.
ResumeSettle(t) ==
  /\ stack = <<>>
  /\ t \in 1..Len(tasks)
  /\ tasks[t].kind = "resume"
  /\ tasks[t].status = PENDING
  /\ \E status \in SettleStatuses(tasks[t]) : Apply(resumeSettled(This, t, status))

Next ==
  \/ \E e \in Exec, n \in StartNodes : AddAction(e, n)
  \/ \E e \in Exec : Run(e)
  \/ \E sync \in BOOLEAN : RunDispatch(sync)
  \/ RunReturn
  \/ \E t \in 1..MaxCalls : NodeNext(t)
  \/ \E t \in 1..MaxCalls : ExecSettle(t)
  \/ \E e \in Exec, n \in Node, a \in 1..MaxCalls : Resume(e, n, a)
  \/ \E t \in 1..MaxCalls : ResumeSettle(t)

Spec == Init /\ [][Next]_vars

\* The behaviours in which every node keeps the contract of the continuation:
\* it calls next exactly once, before execute settles.
ExecSettleAfterNext(t) ==
  /\ t \in 1..Len(tasks)
  /\ tasks[t].called
  /\ ExecSettle(t)

ResumeSettleAfterNext(t) ==
  /\ t \in 1..Len(tasks)
  /\ tasks[t].called
  /\ ResumeSettle(t)

LiveNext ==
  \/ \E e \in Exec, n \in StartNodes : AddAction(e, n)
  \/ \E e \in Exec : Run(e)
  \/ \E sync \in BOOLEAN : RunDispatch(sync)
  \/ RunReturn
  \/ \E t \in 1..MaxCalls : NodeNext(t)
  \/ \E t \in 1..MaxCalls : ExecSettleAfterNext(t)
  \/ \E e \in Exec, n \in Node, a \in 1..MaxCalls : Resume(e, n, a)
  \/ \E t \in 1..MaxCalls : ResumeSettleAfterNext(t)

\* Synchronous code runs on: an open run loop dispatches its next entry and
\* returns.  Every node invoked eventually calls the continuation.
Fairness ==
  /\ WF_vars(\E sync \in BOOLEAN : RunDispatch(sync))
  /\ WF_vars(RunReturn)
  /\ \A t \in 1..MaxCalls : WF_vars(NodeNext(t))

LiveSpec == Init /\ [][LiveNext]_vars /\ Fairness

\* -------------------------------------------------------------- vocabulary
\* The pending queue of an execution, <<>> when the map has no entry for it.
QueueOf(e) == IF MapHas(nodeQueueMap, e) THEN nodeQueueMap[e] ELSE <<>>

\* The actionIds in the running set of an execution, {} when it is absent.
RunningOf(e) == IF MapHas(actionRunningMap, e) THEN DOMAIN actionRunningMap[e] ELSE {}

\* This step emits an instance-complete event for e.
EmitsComplete(e) ==
  /\ Len(events') = Len(events) + 1
  /\ events'[Len(events')].type = EVENT_INSTANCE_COMPLETE
  /\ events'[Len(events')].executionId = e

\* The positions of the instance-complete events of e.
CompleteEvents(e) ==
  {k \in 1..Len(events) : /\ events[k].type = EVENT_INSTANCE_COMPLETE
                          /\ events[k].executionId = e}

TaskIds == 1..Len(tasks)

\* The requests a run loop has snapshotted and not dispatched yet.
Snapshotted ==
  {<<f, k>> \in (1..Len(stack)) \X (1..MaxCalls) :
     k >= stack[f].i /\ k <= Len(stack[f].nodeQueue)}

\* The positions at which the request made by addAction call r is held: in a
\* pending queue, in the rest of a snapshot, or in the log of dispatches.
PlacesOf(r) ==
  {<<"queue", e, k>> : <<e, k>> \in
     {<<e, k>> \in Exec \X (1..MaxCalls) : k <= Len(QueueOf(e)) /\ QueueOf(e)[k].rid = r}}
  \cup {<<"snapshot", p[1], p[2]>> : p \in
     {q \in Snapshotted : stack[q[1]].nodeQueue[q[2]].rid = r}}
  \cup {<<"dispatched", 0, k>> : k \in
     {j \in 1..Len(dispatched) : dispatched[j].rid = r}}

\* The position in the log of dispatches of the request r, 0 if it has none.
DispatchPos(r) ==
  IF \E k \in 1..Len(dispatched) : dispatched[k].rid = r
  THEN CHOOSE k \in 1..Len(dispatched) : dispatched[k].rid = r
  ELSE 0

\* ------------------------------------------------------------------ claims

\* C1: whenever run emits an instance-complete event for an executionId, at
\* the moment of the emission the pending queue of that executionId is empty
\* or absent and its running set is empty or absent.  (The emission is the
\* last thing its step does, so the moment of emission is the state after the
\* step.)
C1_CompleteOnlyWhenBothEmpty ==
  [][\A e \in Exec :
       EmitsComplete(e) => /\ (QueueOf(e))' = <<>>
                           /\ (RunningOf(e))' = {}]_vars

\* An instance-complete event exists for an execution whose action was
\* dispatched and reported, while the other execution still has work queued.
C1_Witness ==
  \E e \in Exec :
    /\ CompleteEvents(e) # {}
    /\ \E t \in TaskIds : tasks[t].executionId = e /\ tasks[t].called
    /\ \E e2 \in Exec \ {e} : QueueOf(e2) # <<>>

\* C2: once an instance-complete event has been emitted for an execution
\* whose actions were dispatched and reported, a further run for the same
\* executionId (called while no run loop is open) with no addAction or resume
\* in between does not emit a second instance-complete event.
C2_CompleteOncePerTerminalState ==
  [][\A e \in Exec :
       (/\ EmitsComplete(e)
        /\ stack = <<>>
        /\ CompleteEvents(e) # {}
        /\ \E t \in TaskIds : tasks[t].executionId = e /\ tasks[t].called)
       => touched[e]]_vars

\* C3: no instance-complete event is emitted for an execution that still has
\* outstanding work: a queued request, a snapshotted request not dispatched
\* yet, or an action dispatched or resumed whose node is still running and has
\* not called the continuation.
OutstandingWork(e) ==
  \/ QueueOf(e) # <<>>
  \/ \E p \in Snapshotted : stack[p[1]].nodeQueue[p[2]].executionId = e
  \/ \E t \in TaskIds : /\ tasks[t].executionId = e
                        /\ ~tasks[t].called
                        /\ tasks[t].status = PENDING

C3_NoCompleteWhileWorkOutstanding ==
  [][\A e \in Exec : EmitsComplete(e) => ~(OutstandingWork(e))']_vars

\* C4: every request enqueued by addAction is held in exactly one place (its
\* queue, the rest of a snapshot, or the log of dispatches), so that none is
\* lost and none is dispatched twice, and no two dispatches share an actionId.
C4_DispatchedExactlyOnce ==
  /\ \A r \in 1..(nextRid - 1) : Cardinality(PlacesOf(r)) = 1
  /\ \A j, k \in 1..Len(dispatched) :
       j # k => dispatched[j].actionId # dispatched[k].actionId
  /\ (stack = <<>> /\ \A e \in Exec : QueueOf(e) = <<>>)
       => \A r \in 1..(nextRid - 1) : DispatchPos(r) # 0

\* A request chained while an outer run loop was dispatching its snapshot has
\* been dispatched by the inner run.
C4_Witness ==
  /\ Len(stack) = 2
  /\ stack[2].i > Len(stack[2].nodeQueue)
  /\ Len(dispatched) >= 2
  /\ \E k \in 1..Len(stack[2].nodeQueue) : DispatchPos(stack[2].nodeQueue[k].rid) # 0

\* C5: when a node reports completion with outgoing = [B, C], then at the end
\* of the run cycle started by that continuation B and C have both been
\* dispatched against the same executionId, each exactly once, B before C.
C5_ChainedDispatchedInOrder ==
  \A f \in 1..Len(stack) :
    stack[f].i > Len(stack[f].nodeQueue) =>
      LET ch == stack[f].chained IN
        /\ \A k \in 1..Len(ch) :
             /\ Cardinality({j \in 1..Len(dispatched) : dispatched[j].rid = ch[k].rid}) = 1
             /\ dispatched[DispatchPos(ch[k].rid)].nodeId = ch[k].target
             /\ dispatched[DispatchPos(ch[k].rid)].executionId
                  = stack[f].runParam.executionId
        /\ \A j, k \in 1..Len(ch) :
             j < k => DispatchPos(ch[j].rid) < DispatchPos(ch[k].rid)

\* A run cycle started by a continuation that chained two successors has
\* dispatched both.
C5_Witness ==
  /\ stack # <<>>
  /\ Top.i > Len(Top.nodeQueue)
  /\ Len(Top.chained) = 2
  /\ Top.chained[1].target # Top.chained[2].target

\* The actionIds of the node invocations of e that have not reported: an
\* execute still running that has not called the continuation, or a resumed
\* node that has not called it (whether or not its resume has returned).
InFlight(e) ==
  {tasks[t].actionId : t \in {u \in TaskIds : /\ tasks[u].executionId = e
                                              /\ ~tasks[u].called
                                              /\ \/ tasks[u].status = PENDING
                                                 \/ tasks[u].kind = "resume"}}

\* This step is a call of resume.
IsResume ==
  /\ Len(tasks') = Len(tasks) + 1
  /\ tasks'[Len(tasks')].kind = "resume"

\* C6: resume mints no actionId and inserts the action into the running set
\* of its executionId under the actionId supplied, and the entry stays there
\* until the resumed node calls the continuation.
C6_ResumedStaysUntilReported ==
  /\ [](\A t \in TaskIds :
          (tasks[t].kind = "resume" /\ ~tasks[t].called)
            => /\ tasks[t].actionId \in RunningOf(tasks[t].executionId)
               /\ actionRunningMap[tasks[t].executionId][tasks[t].actionId].actionId
                    = tasks[t].actionId)
  /\ [][IsResume => nextActionId' = nextActionId]_vars

\* C7: for two different in-flight actions of one execution, neither
\* completion (continuation call or direct-return cleanup of exec) removes the
\* entry of the other action or leaves its own behind: the running set holds
\* only actions that are still in flight, so it is empty or absent once both
\* have completed, and a step removes an entry only if it is a completion of
\* that very action.
C7_ConcurrentCompletionsKeepRunningSet ==
  /\ [](\A e \in Exec : RunningOf(e) \subseteq InFlight(e))
  /\ [][\A e \in Exec : \A a \in RunningOf(e) :
          a \notin (RunningOf(e))' =>
            \E t \in TaskIds : /\ tasks[t].executionId = e
                               /\ tasks[t].actionId = a
                               /\ tasks'[t] # tasks[t]]_vars

\* Two actions of one execution were in flight together (the one dispatched
\* first reported last), both have reported and settled, and the running set
\* is empty or absent.
C7_Witness ==
  \E t1, t2 \in TaskIds :
    /\ t1 < t2
    /\ tasks[t1].executionId = tasks[t2].executionId
    /\ tasks[t1].kind = "execute" /\ tasks[t2].kind = "execute"
    /\ tasks[t1].called /\ tasks[t2].called
    /\ tasks[t1].status = COMPLETED /\ tasks[t2].status = COMPLETED
    /\ \E j, k \in 1..Len(recorder) :
         /\ j < k
         /\ recorder[j].via = "next" /\ recorder[j].actionId = tasks[t2].actionId
         /\ recorder[k].via = "next" /\ recorder[k].actionId = tasks[t1].actionId
    /\ Len(dispatched) = 2
    /\ RunningOf(tasks[t1].executionId) = {}

\* The execute call of t settles to status in this step.
SettlesTo(t, status) == tasks[t].status = PENDING /\ tasks'[t].status = status

\* The result a node returns from execute.
ExecResult(t, status) ==
  [executionId |-> tasks[t].executionId, actionId |-> tasks[t].actionId,
   nodeId |-> tasks[t].nodeId, outgoing |-> tasks[t].outgoing, status |-> status]

\* An action of e returned INTERRUPTED without calling the continuation, and no
\* node resumed under its actionId has reported completion.
InterruptedWaiting(e) ==
  \E t \in TaskIds :
    /\ tasks[t].kind = "execute" /\ tasks[t].executionId = e
    /\ tasks[t].status = INTERRUPTED /\ ~tasks[t].called
    /\ ~\E r \in TaskIds : /\ tasks[r].kind = "resume" /\ tasks[r].called
                           /\ tasks[r].executionId = e
                           /\ tasks[r].actionId = tasks[t].actionId

\* C8: when a dispatched node returns INTERRUPTED without chaining, an
\* instance-interrupted event is emitted and no successor is enqueued, and
\* while the action waits for its resume no instance-complete event is emitted
\* for the execution when a sibling action reports completion.
C8_NoCompleteWhileInterrupted ==
  [][/\ \A t \in TaskIds :
          (tasks[t].kind = "execute" /\ SettlesTo(t, INTERRUPTED)) =>
            /\ events' = Append(events, [type |-> EVENT_INSTANCE_INTERRUPTED]
                                          @@ ExecResult(t, INTERRUPTED))
            /\ nodeQueueMap' = nodeQueueMap
     /\ \A e \in Exec :
          (EmitsComplete(e) /\ events'[Len(events')].actionId # NoActionId)
            => ~(InterruptedWaiting(e))']_vars

\* The number of instance-error events carrying actionId a.
ErrorEvents(a) ==
  Cardinality({k \in 1..Len(events) : /\ events[k].type = EVENT_INSTANCE_ERROR
                                      /\ events[k].actionId = a})

\* C9: when a dispatched node returns ERROR, exactly one instance-error event
\* carrying that result is emitted and nothing is halted: the pending queues,
\* the open run loops and the other entries of the running sets are left as
\* they were.
C9_ErrorHaltsNothing ==
  /\ [](\A t \in TaskIds :
          tasks[t].kind = "execute" =>
            ErrorEvents(tasks[t].actionId) = IF tasks[t].status = ERROR THEN 1 ELSE 0)
  /\ [][\A t \in TaskIds :
          (tasks[t].kind = "execute" /\ SettlesTo(t, ERROR)) =>
            /\ events' = Append(events, [type |-> EVENT_INSTANCE_ERROR]
                                          @@ ExecResult(t, ERROR))
            /\ nodeQueueMap' = nodeQueueMap
            /\ stack' = stack
            /\ \A e \in Exec :
                 (RunningOf(e))' =
                   RunningOf(e) \ IF e = tasks[t].executionId
                                  THEN {tasks[t].actionId} ELSE {}]_vars

\* After the instance-error event of one action, a sibling that was in flight
\* reported, its successor was dispatched by a later run cycle and reported,
\* and the execution completed.
C9_Witness ==
  \E k \in 1..Len(events) :
    /\ events[k].type = EVENT_INSTANCE_ERROR
    /\ \E c \in CompleteEvents(events[k].executionId) :
         /\ k < c
         /\ \E t \in TaskIds : /\ tasks[t].actionId = events[c].actionId
                               /\ tasks[t].nodeId # "A"
                               /\ tasks[t].called

\* Every action of e that was dispatched or resumed has reported, and nothing
\* is queued or being dispatched.
Terminal(e) ==
  /\ stack = <<>>
  /\ QueueOf(e) = <<>>
  /\ \E t \in TaskIds : tasks[t].executionId = e
  /\ \A t \in TaskIds : tasks[t].executionId = e => tasks[t].called

\* C10: when every node invoked eventually calls the continuation exactly
\* once, an execution with an action in flight eventually has nothing in
\* flight and an instance-complete event emitted since its last addAction or
\* resume, and no state has every action of an execution reported, its queue
\* empty and its running set empty or absent without such an event.
C10_EventuallyComplete ==
  /\ \A e \in Exec :
       (InFlight(e) # {}) ~> (/\ InFlight(e) = {}
                              /\ CompleteEvents(e) # {}
                              /\ ~touched[e])
  /\ [](\A e \in Exec :
          Terminal(e) => /\ RunningOf(e) = {}
                         /\ CompleteEvents(e) # {}
                         /\ ~touched[e])

\* An execution whose seeded action chained a successor has had both report
\* and has emitted its instance-complete event.
C10_Witness ==
  \E e \in Exec :
    /\ Terminal(e)
    /\ CompleteEvents(e) # {}
    /\ \E t \in TaskIds : tasks[t].executionId = e /\ tasks[t].nodeId # "A"

\* C11: a run for an executionId that has neither a pending queue nor a
\* running set (addAction was never called for it) dispatches nothing and emits
\* at once one instance-complete event carrying that executionId and the
\* status COMPLETED.
C11_RunNeverSeededCompletes ==
  [][\A e \in Exec :
       (Run(e) /\ ~MapHas(nodeQueueMap, e) /\ ~MapHas(actionRunningMap, e))
         => /\ events' = Append(events, [type |-> EVENT_INSTANCE_COMPLETE,
                                         executionId |-> e,
                                         nodeId |-> NoNode,
                                         actionId |-> NoActionId,
                                         status |-> COMPLETED])
            /\ dispatched' = dispatched
            /\ tasks' = tasks
            /\ stack' = stack
            /\ nextActionId' = nextActionId
            /\ actionRunningMap' = actionRunningMap
            /\ nodeQueueMap' = nodeQueueMap]_vars

\* An instance-complete event was emitted for an execution that was never
\* seeded, while the other execution has an action in its running set.
C11_Witness ==
  \E e \in Exec :
    /\ CompleteEvents(e) # {}
    /\ ~MapHas(nodeQueueMap, e)
    /\ ~MapHas(actionRunningMap, e)
    /\ \A k \in 1..Len(dispatched) : dispatched[k].executionId # e
    /\ \E e2 \in Exec \ {e} : RunningOf(e2) # {}

\* The request addAction builds for executionId e and node n in this state.
NodeParam(e, n) == [executionId |-> e, nodeId |-> n]

\* C12: addAction appends the request to the tail of the pending queue of its
\* executionId, creating the queue if it is absent, and changes nothing else:
\* the running sets, the queues of the other executions and the earlier
\* entries of the same queue stay as they were, nothing is dispatched, no event
\* is emitted and no record is stored.  Stated of a call in any reachable
\* state, and of the step of the owner's call.
C12_AddActionAppendsOnly ==
  /\ [](\A e \in Exec, n \in Node :
          LET s == addAction(This, NodeParam(e, n)) IN
            /\ MapHas(s.nodeQueueMap, e)
            /\ s.nodeQueueMap[e] = Append(QueueOf(e), NodeParam(e, n) @@ [rid |-> nextRid])
            /\ \A e2 \in Exec \ {e} :
                 /\ MapHas(s.nodeQueueMap, e2) = MapHas(nodeQueueMap, e2)
                 /\ MapHas(nodeQueueMap, e2) => s.nodeQueueMap[e2] = nodeQueueMap[e2]
            /\ s.actionRunningMap = actionRunningMap
            /\ s.dispatched = dispatched /\ s.tasks = tasks /\ s.stack = stack
            /\ s.nextActionId = nextActionId
            /\ s.events = events
            /\ s.recorder = recorder)
  /\ [][\A e \in Exec, n \in StartNodes :
          AddAction(e, n) =>
            /\ MapHas(nodeQueueMap', e)
            /\ nodeQueueMap'[e] = Append(QueueOf(e), NodeParam(e, n) @@ [rid |-> nextRid])
            /\ \A e2 \in Exec \ {e} :
                 /\ MapHas(nodeQueueMap', e2) = MapHas(nodeQueueMap, e2)
                 /\ (QueueOf(e2))' = QueueOf(e2)
            /\ actionRunningMap' = actionRunningMap
            /\ dispatched' = dispatched /\ tasks' = tasks /\ stack' = stack
            /\ nextActionId' = nextActionId
            /\ events' = events
            /\ recorder' = recorder]_vars

\* A queue holds two requests, appended after an action of the same execution
\* was dispatched and while it is in the running set.
C12_Witness ==
  \E e \in Exec :
    /\ Len(QueueOf(e)) >= 2
    /\ QueueOf(e)[1].rid < QueueOf(e)[2].rid
    /\ RunningOf(e) # {}
    /\ \E k \in 1..Len(dispatched) : /\ dispatched[k].executionId = e
                                     /\ dispatched[k].rid < QueueOf(e)[1].rid

\* This step is an operation performed for executionId e: a call of addAction,
\* run or resume naming e, a continuation call or a return of a node invoked
\* for e, or a step of the dispatch loop of a run for e.
StepFor(e) ==
  \/ \E n \in StartNodes : AddAction(e, n)
  \/ Run(e)
  \/ \E n \in Node, a \in 1..MaxCalls : Resume(e, n, a)
  \/ \E t \in TaskIds : /\ tasks[t].executionId = e
                        /\ (NodeNext(t) \/ ExecSettle(t) \/ ResumeSettle(t))
  \/ /\ stack # <<>>
     /\ Top.runParam.executionId = e
     /\ ((\E sync \in BOOLEAN : RunDispatch(sync)) \/ RunReturn)

\* This step leaves executionId e alone: its pending queue and its running set
\* are what they were, and no event emitted and no record stored carries e.
Untouched(e) ==
  /\ MapHas(nodeQueueMap', e) = MapHas(nodeQueueMap, e)
  /\ (QueueOf(e))' = QueueOf(e)
  /\ MapHas(actionRunningMap', e) = MapHas(actionRunningMap, e)
  /\ MapHas(actionRunningMap, e) => actionRunningMap'[e] = actionRunningMap[e]
  /\ \A k \in (Len(events) + 1)..Len(events') : events'[k].executionId # e
  /\ \A k \in (Len(recorder) + 1)..Len(recorder') : recorder'[k].executionId # e

\* C13: executions are independent: an addAction, run, resume or node
\* completion performed for one executionId never changes the pending queue or
\* the running set of another executionId and never emits an event or stores a
\* record carrying the other executionId.
C13_ExecutionsIndependent ==
  [][/\ \E e \in Exec : StepFor(e)
     /\ \A e1 \in Exec : StepFor(e1) => \A e2 \in Exec \ {e1} : Untouched(e2)]_vars

\* One execution has dispatched an action, stored its record and completed
\* while a request of the other execution, made earlier, is still queued.
C13_Witness ==
  \E e1 \in Exec, e2 \in Exec :
    /\ e1 # e2
    /\ CompleteEvents(e1) # {}
    /\ QueueOf(e2) # <<>>
    /\ \E k \in 1..Len(recorder) : recorder[k].executionId = e1
    /\ \E k \in 1..Len(dispatched) : /\ dispatched[k].executionId = e1
                                     /\ dispatched[k].rid > QueueOf(e2)[1].rid

\* The executionIds whose running set holds actionId a.
RunningIn(a) == {e \in Exec : a \in RunningOf(e)}

\* Every resume call so far named the executionId its actionId was dispatched
\* under.
ValidResumes ==
  \A t \in TaskIds :
    tasks[t].kind = "resume" =>
      \E k \in 1..Len(dispatched) : /\ dispatched[k].actionId = tasks[t].actionId
                                    /\ dispatched[k].executionId = tasks[t].executionId

\* C14 as stated: in every reachable state, after any sequence of addAction,
\* run, resume and node completions, an actionId is in the running set of at
\* most one executionId.
C14_ActionIdInOneRunningSet ==
  \A a \in 1..(nextActionId - 1) : Cardinality(RunningIn(a)) <= 1

\* C14 as amended: as long as every resume call names the executionId under
\* which its actionId was dispatched, an actionId is in the running set of at
\* most one executionId.
C14_ActionIdInOneRunningSetIfResumesValid ==
  ValidResumes => \A a \in 1..(nextActionId - 1) : Cardinality(RunningIn(a)) <= 1

\* An action that returned INTERRUPTED was resumed under its own executionId
\* and is back in the running set of that execution.
C14_Witness ==
  /\ ValidResumes
  /\ \E t \in TaskIds, r \in TaskIds :
       /\ tasks[t].kind = "execute" /\ tasks[t].status = INTERRUPTED
       /\ tasks[r].kind = "resume" /\ ~tasks[r].called
       /\ tasks[r].actionId = tasks[t].actionId
       /\ RunningIn(tasks[t].actionId) = {tasks[t].executionId}

\* The records stored for e, and the nodes dispatched for e, in order.
RecordsOf(e) == SelectSeq(recorder, LAMBDA r : r.executionId = e)
DispatchedOf(e) == SelectSeq(dispatched, LAMBDA d : d.executionId = e)

\* The execution e was seeded with A, A chained B, B chained nothing, and
\* every node called the continuation: nothing returned INTERRUPTED or ERROR
\* and nothing was resumed.
SeededAChainsB(e) ==
  /\ Len(DispatchedOf(e)) = 2
  /\ DispatchedOf(e)[1].nodeId = "A"
  /\ DispatchedOf(e)[2].nodeId = "B"
  /\ QueueOf(e) = <<>>
  /\ \A p \in Snapshotted : stack[p[1]].nodeQueue[p[2]].executionId # e
  /\ \A t \in TaskIds :
       tasks[t].executionId = e =>
         /\ tasks[t].kind = "execute"
         /\ tasks[t].status \in {PENDING, COMPLETED}

\* C15: for an execution seeded with A where A chains to B and B has no
\* outgoing edges, A's record is stored before B's record, and no record of
\* the execution is stored after its instance-complete event (the one emitted
\* since the execution was last given work).
C15_RecordsThenComplete ==
  /\ [](\A e \in Exec :
          SeededAChainsB(e) =>
            \A k \in 1..Len(RecordsOf(e)) :
              RecordsOf(e)[k].nodeId = "B" =>
                \E j \in 1..(k - 1) : RecordsOf(e)[j].nodeId = "A")
  /\ [][\A e \in Exec :
          (/\ (SeededAChainsB(e))'
           /\ Len(recorder') = Len(recorder) + 1
           /\ recorder'[Len(recorder')].executionId = e)
            => (CompleteEvents(e) = {} \/ touched[e])]_vars

\* C16 as stated: dispatch order is FIFO per execution: of two requests of the
\* same executionId, the one appended to the pending queue first is dispatched
\* first, also when a continuation enqueues successors and re-enters run while
\* an outer run cycle is still dispatching its snapshot.
C16_DispatchFifo ==
  \A j, k \in 1..Len(dispatched) :
    (/\ dispatched[j].executionId = dispatched[k].executionId
     /\ dispatched[j].rid < dispatched[k].rid)
      => j < k

\* C16 as amended: dispatch order is FIFO within a run cycle: a pending queue
\* holds its requests in the order they were appended, the snapshot of a run
\* cycle holds them in that order, and the cycle dispatches its snapshot in
\* that order, the requests before its position dispatched and the others not.
C16_DispatchFifoWithinCycle ==
  /\ \A e \in Exec : \A j, k \in 1..Len(QueueOf(e)) :
       j < k => QueueOf(e)[j].rid < QueueOf(e)[k].rid
  /\ \A f \in 1..Len(stack) :
       LET q == stack[f].nodeQueue IN
         /\ \A j, k \in 1..Len(q) : j < k => q[j].rid < q[k].rid
         /\ \A k \in 1..Len(q) : (k < stack[f].i) <=> (DispatchPos(q[k].rid) # 0)
         /\ \A j, k \in 1..Len(q) :
              (j < k /\ k < stack[f].i)
                => DispatchPos(q[j].rid) < DispatchPos(q[k].rid)

\* An outer run cycle has dispatched both requests of its snapshot, in order,
\* and the run re-entered by the continuation of the first has dispatched the
\* request that continuation chained in between.
C16_Witness ==
  /\ Len(stack) = 1
  /\ Len(stack[1].nodeQueue) = 2
  /\ stack[1].i = 3
  /\ Len(dispatched) = 3
  /\ dispatched[2].rid > dispatched[3].rid
  /\ dispatched[2].executionId = dispatched[3].executionId

\* C17: the running-set map retains no empty container: whenever an operation
\* has finished (no run loop is open), no executionId is mapped to an empty
\* running set.
C17_NoEmptyRunningSetRetained ==
  stack = <<>> =>
    \A e \in Exec : MapHas(actionRunningMap, e) => DOMAIN actionRunningMap[e] # {}

\* C18: once the pending queue and the running set of an execution are both
\* empty and its instance-complete event has been emitted (since it was last
\* given work), neither the pending-queue map nor the running-set map holds
\* an entry for that executionId.
C18_StateReclaimed ==
  \A e \in Exec :
    (/\ stack = <<>>
     /\ QueueOf(e) = <<>>
     /\ RunningOf(e) = {}
     /\ CompleteEvents(e) # {}
     /\ ~touched[e])
      => /\ ~MapHas(nodeQueueMap, e)
         /\ ~MapHas(actionRunningMap, e)

\* The records stored for the action a of execution e, in order.
RecordsOfAction(e, a) ==
  SelectSeq(recorder, LAMBDA r : r.executionId = e /\ r.actionId = a)

\* C19: for every action dispatched by run whose node called the continuation
\* once and then returned from execute, the record store holds exactly two
\* records carrying its executionId and actionId, the continuation's first and
\* the direct-return record second, and the removal made on the direct return
\* leaves the running-set map as it was.
C19_DualCompletionRecords ==
  /\ [](\A t \in TaskIds :
          (/\ tasks[t].kind = "execute" /\ tasks[t].called
           /\ tasks[t].status = COMPLETED)
            => LET rs == RecordsOfAction(tasks[t].executionId, tasks[t].actionId) IN
                 /\ Len(rs) = 2
                 /\ rs[1].via = "next"
                 /\ rs[2].via = "exec" /\ rs[2].status = COMPLETED)
  /\ [][\A t \in TaskIds :
          (/\ tasks[t].kind = "execute" /\ tasks[t].called
           /\ SettlesTo(t, COMPLETED))
            => /\ actionRunningMap' = actionRunningMap
               /\ Len(recorder') = Len(recorder) + 1
               /\ events' = events]_vars

\* This step is a call of the continuation for the action a of execution e:
\* next stores its record.
ContinuationCalled(e, a) ==
  /\ Len(recorder') = Len(recorder) + 1
  /\ recorder'[Len(recorder')].via = "next"
  /\ recorder'[Len(recorder')].executionId = e
  /\ recorder'[Len(recorder')].actionId = a

\* resume was called for the action a of execution e.
Resumed(e, a) ==
  \E r \in TaskIds : /\ tasks[r].kind = "resume"
                     /\ tasks[r].executionId = e
                     /\ tasks[r].actionId = a

\* C20: the resume path does not read the value the node's resume operation
\* returns: whatever the status, its return emits no event, stores no record
\* and removes nothing from the running set; an action inserted by resume
\* leaves the running set only through the continuation; and no
\* instance-complete event is emitted for an execution with a resumed action
\* for which nobody has called the continuation.
C20_ResumeIgnoresReturnValue ==
  /\ [][\A t \in TaskIds :
          (tasks[t].kind = "resume" /\ \E status \in {COMPLETED, INTERRUPTED, ERROR} :
                                         SettlesTo(t, status))
            => /\ events' = events
               /\ recorder' = recorder
               /\ actionRunningMap' = actionRunningMap]_vars
  /\ [][\A e \in Exec : \A a \in RunningOf(e) :
          (Resumed(e, a) /\ a \notin (RunningOf(e))') => ContinuationCalled(e, a)]_vars
  /\ [][\A e \in Exec :
          EmitsComplete(e) =>
            \A a \in 1..(nextActionId - 1) :
              (Resumed(e, a))' =>
                \E t \in TaskIds : /\ tasks'[t].executionId = e
                                   /\ tasks'[t].actionId = a
                                   /\ tasks'[t].called]_vars

====
